---- MODULE Spec2Model ----
(***************************************************************************)
(* panic_ramlog: a panic handler that records the panic location and       *)
(* message in a RAM region that survives a warm reset, and the boot-time   *)
(* detect_and_reset / filename / message readers of that region.           *)
(*                                                                         *)
(* The region is a byte array indexed from 0, held in pages of PageSize    *)
(* bytes and read with At.  The header PanicInfoMeta occupies its first    *)
(* HeaderSize bytes.  Strings are named by short names and Bytes gives the *)
(* bytes a name stands for.  The TailLen bytes of memory after the region   *)
(* are kept with it: they belong to the rest of the program, a write past  *)
(* the region lands in them (it sets the history flag oob and may lock the *)
(* device up) and a read past the region returns them.                     *)
(***************************************************************************)
EXTENDS Integers, Sequences, FiniteSets, TLC

\* ------------------------------------------------------------------ bounds
\* panics of the running program per behaviour (a detect_and_reset call that
\* panics is not one of them: it panics every time it is made)
MaxPanics == 1
\* detect_and_reset calls that return between two runs of panic()
MaxDetects == 2
\* set_panic_led_blinker calls per boot
MaxRegs == 2
\* length of the long file name (longer than the u8 clamp)
LongFileLen == 256
\* bytes of memory after the region that are kept with it
TailLen == 576

\* ------------------------------------------------------------ program constants
\* size_of::<PanicInfoMeta>(): u32 + u32 + u16 + u8 + u8, alignment 4
HeaderSize == 12
\* the clamp of filename_len (u8::MAX)
MaxFilenameLen == 255
\* align_of::<PanicInfoMeta>(): that of its u32 fields
MetaAlign == 4
\* 2^8 and 2^16: the number of values of a u8 and of a u16
U8 == 256
U16 == 65536
\* i32::MAX, for arithmetic on values of 2^31 and more
I32Max == 2147483647
\* A u32 or usize value v (32 bits on the target) is written v when v < 2^31
\* and v - 2^32 otherwise (its two's complement reading), so that every value
\* is a TLC integer; wrapping subtraction is then plain subtraction.

\* Option<T>
None == <<>>
Some(x) == <<x>>

Min(a, b) == IF a <= b THEN a ELSE b

\* ------------------------------------------------------------ memory
\* bytes per page of the representation of a byte array
PageSize == U8

\* the byte array of n bytes that are all v
Filled(n, v) ==
    [p \in 1..((n + PageSize - 1) \div PageSize) |->
        [o \in 1..Min(PageSize, n - (p - 1) * PageSize) |-> v]]

\* mem[i]
At(mem, i) == mem[(i \div PageSize) + 1][(i % PageSize) + 1]

\* ------------------------------------------------------------ byte operations
RECURSIVE BitXor(_, _)
\* a ^ b on unsigned integers
BitXor(a, b) ==
    IF a = 0 THEN b
    ELSE IF b = 0 THEN a
    ELSE (((a % 2) + (b % 2)) % 2) + 2 * BitXor(a \div 2, b \div 2)

RECURSIVE XorRange(_, _, _)
\* the xor of mem[lo], ..., mem[hi-1] (0 when the range is empty); the loops
\* `for i in size_of::<PanicInfoMeta>()..panic_info_ram.len()` fold the same
\* bytes left to right, the halving here only keeps the recursion shallow
XorRange(mem, lo, hi) ==
    IF lo >= hi THEN 0
    ELSE IF hi = lo + 1 THEN At(mem, lo)
    ELSE LET mid == (lo + hi) \div 2
         IN  BitXor(XorRange(mem, lo, mid), XorRange(mem, mid, hi))

\* byte k (0 = least significant) of the little-endian image of v
LeByte(v, k) == (v \div (U8 ^ k)) % U8

\* a >= b on usize values
UGe(a, b) == IF (a < 0) = (b < 0) THEN a >= b ELSE a < 0

\* copy_nonoverlapping(src, mem + at, n): src[1..n] lands at at..at+n-1; the
\* part of the destination that lies past the region is not region state
CopyIn(mem, at, src, n) ==
    [p \in DOMAIN mem |->
        IF n <= 0 \/ p * PageSize <= at \/ (p - 1) * PageSize >= at + n
        THEN mem[p]
        ELSE [o \in DOMAIN mem[p] |->
                LET i == (p - 1) * PageSize + o - 1
                IN  IF i >= at /\ i < at + n THEN src[i - at + 1] ELSE mem[p][o]]]

\* a write_bytes that zeroes one byte more
ZeroOneMore(mem, n) == CopyIn(mem, 0, [k \in 1..(n + 1) |-> 0], n + 1)

\* write_bytes(mem, 0, n)
ZeroFirst(mem, n) == CopyIn(mem, 0, [k \in 1..n |-> 0], n)

\* ------------------------------------------------------------ PanicInfoMeta
\* a header that does not start from zero
DefaultMetaLineOne ==
    [filename_len |-> 0, line |-> 1, column |-> 0, message_len |-> 0, xor |-> 0]

\* PanicInfoMeta::default()
DefaultMeta ==
    [filename_len |-> 0, line |-> 0, column |-> 0, message_len |-> 0, xor |-> 0]

\* Field offsets of the default-representation struct as rustc lays it out:
\* fields by decreasing alignment, ties in declaration order, no padding.
OffLine == 0
OffColumn == 4
OffMessageLen == 8
OffFilenameLen == 10
OffXor == 11

\* the HeaderSize bytes of a PanicInfoMeta value (little endian)
MetaBytes(m) ==
    [k \in 1..HeaderSize |->
        LET i == k - 1 IN
        IF i < OffColumn THEN LeByte(m.line, i - OffLine)
        ELSE IF i < OffMessageLen THEN LeByte(m.column, i - OffColumn)
        ELSE IF i < OffFilenameLen THEN LeByte(m.message_len, i - OffMessageLen)
        ELSE IF i = OffFilenameLen THEN m.filename_len
        ELSE m.xor]

RECURSIVE LeValue(_, _, _)
\* the unsigned little-endian integer in mem[at .. at+n-1]
LeValue(mem, at, n) ==
    IF n = 0 THEN 0 ELSE At(mem, at) + U8 * LeValue(mem, at + 1, n - 1)

\* the u32 in mem[at .. at+3]
U32Value(mem, at) ==
    LET top == At(mem, at + 3)
    IN  LeValue(mem, at, 3) + (U8 ^ 3) * (IF top >= 128 THEN top - U8 ELSE top)

\* *(panic_info_ram.as_mut_ptr() as *const PanicInfoMeta)
ReadMeta(mem) ==
    [filename_len |-> At(mem, OffFilenameLen),
     line         |-> U32Value(mem, OffLine),
     column       |-> U32Value(mem, OffColumn),
     message_len  |-> LeValue(mem, OffMessageLen, 2),
     xor          |-> At(mem, OffXor)]

\* ------------------------------------------------------------ inputs
\* a file name longer than the u8 clamp, and a text of 2^16 bytes
LongFile == [i \in 1..LongFileLen |-> 97 + (i % 26)]
WideText == [i \in 1..U16 |-> 97 + (i % 26)]

\* str::as_bytes of the strings the model uses, each under a short name
\* ("lib.rs" is the path this crate's lib.rs is compiled under,
\* ../../src/src/lib.rs; "misaligned" and "but is" are the fixed parts of
\* the message of the pointer alignment check)
Bytes(s) ==
    CASE s = "x.rs" -> <<120, 46, 114, 115>>
      [] s = "aa"   -> <<97, 97>>
      [] s = "boom" -> <<98, 111, 111, 109>>
      [] s = "long" -> LongFile
      [] s = "wide" -> WideText
      [] s = "panicked at " -> <<112, 97, 110, 105, 99, 107, 101, 100, 32, 97, 116, 32>>
      [] s = ":"    -> <<58>>
      [] s = ":\n"  -> <<58, 10>>
      [] s = "0x"   -> <<48, 120>>
      [] s = "lib.rs" -> <<46, 46, 47, 46, 46, 47, 115, 114, 99, 47, 115, 114, 99, 47, 108, 105, 98, 46, 114, 115>>
      [] s = "misaligned" ->
            <<109, 105, 115, 97, 108, 105, 103, 110, 101, 100, 32, 112, 111, 105, 110, 116, 101, 114, 32, 100, 101, 114, 101, 102, 101, 114, 101, 110, 99, 101, 58, 32>>
            \o <<97, 100, 100, 114, 101, 115, 115, 32, 109, 117, 115, 116, 32, 98, 101, 32, 97, 32, 109, 117, 108, 116, 105, 112, 108, 101, 32, 111, 102, 32>>
      [] s = "but is" -> <<32, 98, 117, 116, 32, 105, 115, 32>>

\* the ASCII digit of d < 16 (lower case)
DigitChar(d) == IF d < 10 THEN 48 + d ELSE 87 + d

RECURSIVE Digits(_, _)
\* the digits of the u32 n in base b, as the integer formatting of core::fmt
\* writes them
Digits(n, b) ==
    IF n < 0
    THEN LET m == (n + I32Max) + 1
             low == (m % b) + (I32Max % b) + 1
         IN  Digits((m \div b) + (I32Max \div b) + (low \div b), b)
             \o <<DigitChar(low % b)>>
    ELSE IF n < b THEN <<DigitChar(n)>>
    ELSE Digits(n \div b, b) \o <<DigitChar(n % b)>>

\* what one write_str call is handed: a string, or the digits of a number
Str(x) == [s |-> x, n |-> 0, base |-> 0]
Dec(v) == [s |-> "", n |-> v, base |-> 10]
Hex(v) == [s |-> "", n |-> v, base |-> 16]
PieceBytes(p) == IF p.base = 0 THEN Bytes(p.s) ELSE Digits(p.n, p.base)

\* core::panic::Location: file(), line(), column()
Loc(f, l, c) == [file |-> f, line |-> l, column |-> c]

\* PanicInfo: location() and the pieces the Display of its message hands to
\* write_str in turn
Locs ==
    {None, Some(Loc("x.rs", 12, 5)), Some(Loc("aa", 305419896, 258)),
     Some(Loc("long", 12, 5))}
Texts == {<<Str("boom")>>}
Infos == {[loc |-> l, pieces |-> t] : l \in Locs, t \in Texts}

\* the pieces the Display of a PanicInfo hands to write_str in turn (line
\* 132): "panicked at ", the location as file:line:column, ":\n", the message
Display(i) ==
    <<Str("panicked at ")>>
    \o (IF i.loc = None THEN <<>>
        ELSE <<Str(i.loc[1].file), Str(":"), Dec(i.loc[1].line), Str(":"),
               Dec(i.loc[1].column)>>)
    \o <<Str(":\n")>>
    \o i.pieces

\* the addresses _panic_info_ram_start may have: 0x2000_0000 for a region of
\* any length, and the next address, not a multiple of the alignment of
\* PanicInfoMeta, for two of the lengths
AlignedStart == 536870912
Starts(n) ==
    {AlignedStart}
    \cup (IF n \in {HeaderSize + 9, HeaderSize + MaxFilenameLen + 8}
          THEN {AlignedStart + 1} ELSE {})

\* whether the build checks the alignment of the pointer that line 67 reads
\* through: on a region that starts at a multiple of the alignment of
\* PanicInfoMeta that check never fires, and one build is kept.  (Whether the
\* build checks the subtraction of line 128 is a choice of PanicCursor.)
Aligned(a) == a % MetaAlign = 0
Builds(a) == IF Aligned(a) THEN {FALSE} ELSE BOOLEAN

\* the PanicInfo of the panic of the pointer alignment check in
\* detect_and_reset (line 67, column 35) on a region that starts at address a
MisalignedInfo(a) ==
    [loc |-> Some(Loc("lib.rs", 67, 35)),
     pieces |-> <<Str("misaligned"), Str("0x"), Hex(MetaAlign), Str("but is"),
                  Str("0x"), Hex(a)>>]

\* pieces and locations for a region that can hold a text of 2^16 bytes
WideTexts == {<<Str("wide")>>, <<Str("boom"), Str("wide")>>}
WideLocs == {None, Some(Loc("x.rs", 12, 5))}
WideInfos == {[loc |-> l, pieces |-> t] : l \in WideLocs, t \in WideTexts}
WideLens == {HeaderSize + U16 + 4}

\* region lengths (_panic_info_ram_end - _panic_info_ram_start)
RegionLens ==
    {HeaderSize, HeaderSize + 4, HeaderSize + 9, HeaderSize + MaxFilenameLen + 8}

\* what the region holds at power up, with the zero bytes after it
PriorContents(n) ==
    {Filled(n + TailLen, 0),
     CopyIn(Filled(n + TailLen, 0), 0, [k \in 1..n |-> 1], n)}

\* the region offsets and the byte of the stores the program makes
StorePositions == {HeaderSize + 1}
StoreBytes == {255}
\* region lengths for the program that stores: a header alone, and a header
\* with room for a file name and the start of a message
StoreLens == {HeaderSize, HeaderSize + 9}

\* the byte a read past the memory that is kept may return
OutsideBytes == {0, 255}

\* positions and bits an outside disturbance may flip
FlipPositions(n) == {i \in 0..(n - 1) : i < HeaderSize + 2 \/ i = n - 1}
FlipBits == {0, 3, 7}

\* the callbacks the program may register
Callbacks == {1, 2}

\* ------------------------------------------------------------ state
VARIABLES
    len,        \* ram_log_slice().len()
    minimal,    \* cfg(feature = "minimal")
    start,      \* the address of _panic_info_ram_start
    checked,    \* the build checks the alignment of the pointer line 67 reads through
    ram,        \* the region, ram_log_slice(), and the TailLen bytes after it
    blinker,    \* PANIC_LED_BLINKER
    pc,         \* "run", a position in panic(), "lockup" or "fault"
    info,       \* panic(): info
    meta,       \* panic(): panic_info_meta
    cursor,     \* panic(): cursor, with the pieces still to be written
    ret,        \* the value of the last detect_and_reset call
    held,       \* the PanicInfoMeta the program keeps
    lastFn,     \* the last held.filename()
    lastMsg,    \* the last held.message()
    stale,      \* history: the accessors whose last text is older than a store
                \* of the program to the region or to the byte after it
    reads,      \* history: n is 1 once message() has been called on the held
                \* record and 2 once it has been called again after calls of every
                \* kind in BetweenKinds; mid is the kinds called in between
    encoded,    \* history: panic() has written a header since it last started
    elog,       \* history: flips and detect_and_reset calls since the last panic()
    plog,       \* history: what the running panic() has done, in order
    hookCalls,  \* history: the callbacks the running panic() has invoked
    regLog,     \* history: the arguments of this boot's set_panic_led_blinker calls
    oob,        \* history: the last panic() wrote past the region
    flipped,    \* history: a bit of the region has been flipped
    panics      \* history: panics of the running program so far

cfgVars == <<len, minimal, start, checked>>
progVars == <<ret, held, lastFn, lastMsg, stale>>
panicVars == <<info, meta, cursor>>
vars ==
    <<len, minimal, start, checked, ram, blinker, pc, info, meta, cursor, ret, held, lastFn,
      lastMsg, stale, reads, encoded, elog, plog, hookCalls, regLog, oob, flipped,
      panics>>

NoInfo == [loc |-> None, pieces |-> <<>>]
NoCursor == [start |-> 0, cap |-> 0, idx |-> 0, todo |-> <<>>]
NoReads == [n |-> 0, mid |-> {}]

InitWith(lens) ==
    /\ len \in lens
    /\ minimal \in BOOLEAN
    /\ start \in Starts(len)
    /\ checked \in Builds(start)
    /\ ram \in PriorContents(len)
    /\ blinker = None
    /\ pc = "run"
    /\ info = NoInfo
    /\ meta = DefaultMeta
    /\ cursor = NoCursor
    /\ ret = None
    /\ held = None
    /\ lastFn = None
    /\ lastMsg = None
    /\ stale = {}
    /\ reads = NoReads
    /\ encoded = FALSE
    /\ elog = <<>>
    /\ plog = <<>>
    /\ hookCalls = <<>>
    /\ regLog = <<>>
    /\ oob = FALSE
    /\ flipped = FALSE
    /\ panics = 0

Init == InitWith(RegionLens)

Event(e, lo, hi) == [ev |-> e, lo |-> lo, hi |-> hi]

\* the kinds of call that are noted between two message() calls
BetweenKinds == {"detect", "register"}

\* reads after a call of kind k that is not an accessor call
Noted(k) == IF reads.n = 1 THEN [reads EXCEPT !.mid = @ \cup {k}] ELSE reads

\* reads after a message() call
Reread ==
    IF reads.n = 0 THEN [reads EXCEPT !.n = 1]
    ELSE IF reads.n = 1 /\ reads.mid = BetweenKinds THEN [reads EXCEPT !.n = 2]
    ELSE reads

\* where a step of panic() that may have written past the region goes next:
\* the stray write goes unnoticed, or the device locks up
AfterWrite(past, next) == IF past THEN {next, "lockup"} ELSE {next}

\* the 'for i in size_of::<PanicInfoMeta>()..panic_info_ram.len()' loop of
\* panic() with its last byte left out
PanicChecksumSkipsLast(seed, mem) ==
    BitXor(seed, XorRange(mem, HeaderSize, len - 1))

\* panic(), lines 137-139: the loop that folds the bytes after the header
\* into panic_info_meta.xor
PanicChecksum(seed, mem) == BitXor(seed, XorRange(mem, HeaderSize, len))

\* detect_and_reset, lines 68-71: xor, from 0, over the bytes after the header
DetectChecksum(mem) == XorRange(mem, HeaderSize, len)

\* detect_and_reset, line 72
ChecksumMatches(xor, m) == xor = m.xor

\* ------------------------------------------------------------ set_panic_led_blinker
\* a registry that keeps the first callback registered
SetFirstWins(b) ==
    /\ pc = "run"
    /\ Len(regLog) < MaxRegs
    /\ blinker' = IF blinker = None THEN Some(b) ELSE blinker
    /\ regLog' = Append(regLog, b)
    /\ reads' = Noted("register")
    /\ UNCHANGED <<cfgVars, ram, pc, panicVars, progVars, encoded, elog, plog,
                   hookCalls, oob, flipped, panics>>

\* set_panic_led_blinker
SetPanicLedBlinker(b) ==
    /\ pc = "run"
    /\ Len(regLog) < MaxRegs
    /\ blinker' = Some(b)
    /\ regLog' = Append(regLog, b)
    /\ reads' = Noted("register")
    /\ UNCHANGED <<cfgVars, ram, pc, panicVars, progVars, encoded, elog, plog,
                   hookCalls, oob, flipped, panics>>

\* ------------------------------------------------------------ panic
\* panic(), lines 105-121: the default header, the location, the file name copy
PanicLocation(i) ==
    /\ pc = "run"
    /\ LET f == IF i.loc = None THEN <<>> ELSE Bytes(i.loc[1].file)
           filename_len == IF Len(f) > MaxFilenameLen THEN MaxFilenameLen ELSE Len(f)
           past == HeaderSize + filename_len > len
       IN  /\ meta' = IF i.loc = None THEN DefaultMeta
                      ELSE [DefaultMeta EXCEPT !.filename_len = filename_len,
                                               !.line = i.loc[1].line,
                                               !.column = i.loc[1].column]
           /\ ram' = CopyIn(ram, HeaderSize, f, filename_len)
           /\ plog' = IF i.loc = None THEN <<>>
                      ELSE <<Event("filename", HeaderSize, HeaderSize + filename_len)>>
           /\ oob' = past
           /\ pc' \in AfterWrite(past, IF minimal THEN "xor" ELSE "cursor")
    /\ info' = i
    /\ cursor' = NoCursor
    /\ encoded' = FALSE
    /\ elog' = <<>>
    /\ hookCalls' = <<>>
    /\ ret' = None
    /\ held' = None
    /\ lastFn' = None
    /\ lastMsg' = None
    /\ stale' = {}
    /\ reads' = NoReads
    /\ UNCHANGED <<cfgVars, blinker, regLog, flipped>>

\* a panic of the running program with PanicInfo i
ProgramPanics(i) ==
    /\ panics < MaxPanics
    /\ panics' = panics + 1
    /\ PanicLocation(i)

\* panic(), lines 124-131: the cursor over the rest of the region.  When the
\* file name does not fit, len - message_start_idx wraps in a build without
\* overflow checks.  In a build with them line 128 panics inside the panic
\* handler: panic() is entered again for a panic located in lib.rs, its lines
\* 114-118 copy the path of lib.rs to the place of the file name, and, that
\* path not fitting a region the first file name did not fit (no length of
\* RegionLens below HeaderSize + MaxFilenameLen holds it), line 128 panics
\* again, and so on until the stack runs out: the device locks up.
PanicCursor ==
    /\ pc = "cursor"
    /\ LET message_start_idx == HeaderSize + meta.filename_len
           nested == Bytes("lib.rs")
       IN  /\ cursor' = [start |-> message_start_idx, cap |-> len - message_start_idx,
                         idx |-> 0, todo |-> Display(info)]
           /\ \/ /\ pc' = "write"
                 /\ ram' = ram
              \/ /\ len < message_start_idx
                 /\ pc' = "lockup"
                 /\ ram' = CopyIn(ram, HeaderSize, nested, Len(nested))
    /\ UNCHANGED <<cfgVars, blinker, info, meta, progVars, encoded, elog, plog,
                   hookCalls, regLog, oob, flipped, panics, reads>>

\* a write_str that copies the whole text whatever room is left
WriteStrUnbounded(mem, c, str) ==
    LET s == PieceBytes(str)
    IN  [mem |-> CopyIn(mem, c.start + c.idx, s, Len(s)),
         idx |-> c.idx + Len(s),
         lo  |-> c.start + c.idx,
         hi  |-> c.start + c.idx + Len(s)]

\* DumbCursor::write_str on cursor c: the new region and the new cursor
WriteStr(mem, c, str) ==
    LET s == PieceBytes(str)
        bytes_left == c.cap - c.idx
        to_copy == IF UGe(bytes_left, Len(s)) THEN Len(s) ELSE bytes_left
    IN  [mem |-> CopyIn(mem, c.start + c.idx, s, to_copy),
         idx |-> c.idx + to_copy,
         lo  |-> c.start + c.idx,
         hi  |-> c.start + c.idx + to_copy]

\* panic(), line 132: write!(cursor, "{}", info), one write_str per piece
PanicWriteStr ==
    /\ pc = "write"
    /\ cursor.todo # <<>>
    /\ LET w == WriteStr(ram, cursor, Head(cursor.todo))
           past == w.hi > w.lo /\ w.hi > len
       IN  /\ ram' = w.mem
           /\ cursor' = [cursor EXCEPT !.idx = w.idx, !.todo = Tail(cursor.todo)]
           /\ plog' = Append(plog, Event("message", w.lo, w.hi))
           /\ oob' = (oob \/ past)
           /\ pc' \in AfterWrite(past, "write")
    /\ UNCHANGED <<cfgVars, blinker, info, meta, progVars, encoded, elog, hookCalls,
                   regLog, flipped, panics, reads>>

\* panic(), line 133: panic_info_meta.message_len = cursor.idx as u16
PanicMessageLen ==
    /\ pc = "write"
    /\ cursor.todo = <<>>
    /\ meta' = [meta EXCEPT !.message_len = cursor.idx % U16]
    /\ pc' = "xor"
    /\ UNCHANGED <<cfgVars, ram, blinker, info, cursor, progVars, encoded, elog, plog,
                   hookCalls, regLog, oob, flipped, panics, reads>>

\* panic(), lines 137-139: the checksum of everything after the header
PanicXor ==
    /\ pc = "xor"
    /\ meta' = [meta EXCEPT !.xor = PanicChecksum(meta.xor, ram)]
    /\ plog' = Append(plog, Event("xor", HeaderSize, len))
    /\ pc' = "header"
    /\ UNCHANGED <<cfgVars, ram, blinker, info, cursor, progVars, encoded, elog,
                   hookCalls, regLog, oob, flipped, panics, reads>>

\* panic(), lines 141-145: the header goes to the start of the region
PanicHeader ==
    /\ pc = "header"
    /\ ram' = CopyIn(ram, 0, MetaBytes(meta), HeaderSize)
    /\ plog' = Append(plog, Event("header", 0, HeaderSize))
    /\ encoded' = TRUE
    /\ pc' = "hook"
    /\ UNCHANGED <<cfgVars, blinker, panicVars, progVars, elog, hookCalls, regLog,
                   oob, flipped, panics, reads>>

\* a panic() that goes on to the reset without waiting for the callback
PanicHookNoWait ==
    /\ pc = "hook"
    /\ pc' = "reset"
    /\ IF blinker = None
       THEN UNCHANGED <<hookCalls, plog>>
       ELSE /\ hookCalls' = Append(hookCalls, blinker[1])
            /\ plog' = Append(plog, Event("hook", 0, 0))
    /\ UNCHANGED <<cfgVars, ram, blinker, panicVars, progVars, encoded, elog, regLog,
                   oob, flipped, panics, reads>>

\* panic(), lines 146-149: the registered callback, if any, is called
PanicHook ==
    /\ pc = "hook"
    /\ IF blinker = None
       THEN /\ pc' = "reset"
            /\ UNCHANGED <<hookCalls, plog>>
       ELSE /\ pc' = "in_hook"
            /\ hookCalls' = Append(hookCalls, blinker[1])
            /\ plog' = Append(plog, Event("hook", 0, 0))
    /\ UNCHANGED <<cfgVars, ram, blinker, panicVars, progVars, encoded, elog, regLog,
                   oob, flipped, panics, reads>>

\* the callback returns
HookReturn ==
    /\ pc = "in_hook"
    /\ plog' = Append(plog, Event("hookret", 0, 0))
    /\ pc' = "reset"
    /\ UNCHANGED <<cfgVars, ram, blinker, panicVars, progVars, encoded, elog,
                   hookCalls, regLog, oob, flipped, panics, reads>>

\* panic(), line 151: SCB::sys_reset(); the region keeps its bytes, the
\* statics are initialised again (line 9) and the program starts over
SysReset ==
    /\ pc = "reset"
    /\ pc' = "run"
    /\ blinker' = None
    /\ regLog' = <<>>
    /\ plog' = <<>>
    /\ hookCalls' = <<>>
    /\ UNCHANGED <<cfgVars, ram, panicVars, progVars, encoded, elog, oob, flipped, panics, reads>>

\* ------------------------------------------------------------ after the reset
Detects == Len(SelectSeq(elog, LAMBDA e : e.ev = "detect"))

\* a detect_and_reset that clears the region when the checksum does not match
DetectAndResetWipes ==
    /\ pc = "run"
    /\ Detects < MaxDetects
    /\ Aligned(start) \/ ~checked
    /\ reads' = Noted("detect")
    /\ LET panic_info_meta == ReadMeta(ram)
           xor == DetectChecksum(ram)
       IN  IF ChecksumMatches(xor, panic_info_meta)
           THEN /\ ram' = ZeroFirst(ram, HeaderSize)
                /\ ret' = Some(panic_info_meta)
                /\ elog' = Append(elog, Event("detect", 1, 0))
                /\ IF held = None
                   THEN /\ held' = Some(panic_info_meta)
                        /\ lastFn' = None
                        /\ lastMsg' = None
                        /\ stale' = {}
                   ELSE UNCHANGED <<held, lastFn, lastMsg, stale>>
           ELSE /\ ret' = None
                /\ ram' = ZeroFirst(ram, len)
                /\ elog' = Append(elog, Event("detect", 0, 0))
                /\ UNCHANGED <<held, lastFn, lastMsg, stale>>
    /\ UNCHANGED <<cfgVars, blinker, pc, panicVars, encoded, plog, hookCalls, regLog,
                   oob, flipped, panics>>

\* PanicInfoMeta::detect_and_reset on a region that starts at a multiple of
\* the alignment of PanicInfoMeta, and on any region in a build that does not
\* check the pointer of line 67 and reads through it as through an aligned one
DetectAndReset ==
    /\ pc = "run"
    /\ Detects < MaxDetects
    /\ Aligned(start) \/ ~checked
    /\ reads' = Noted("detect")
    /\ LET panic_info_meta == ReadMeta(ram)
           xor == DetectChecksum(ram)
       IN  IF ChecksumMatches(xor, panic_info_meta)
           THEN /\ ram' = ZeroFirst(ram, HeaderSize)
                /\ ret' = Some(panic_info_meta)
                /\ elog' = Append(elog, Event("detect", 1, 0))
                /\ IF held = None
                   THEN /\ held' = Some(panic_info_meta)
                        /\ lastFn' = None
                        /\ lastMsg' = None
                        /\ stale' = {}
                   ELSE UNCHANGED <<held, lastFn, lastMsg, stale>>
           ELSE /\ ret' = None
                /\ elog' = Append(elog, Event("detect", 0, 0))
                /\ UNCHANGED <<ram, held, lastFn, lastMsg, stale>>
    /\ UNCHANGED <<cfgVars, blinker, pc, panicVars, encoded, plog, hookCalls, regLog,
                   oob, flipped, panics>>

\* PanicInfoMeta::detect_and_reset, line 67, on a region that does not start
\* at a multiple of the alignment of PanicInfoMeta, in a build that checks
\* the pointer it reads through: every call panics, and panic() runs
DetectPanics ==
    /\ ~Aligned(start)
    /\ checked
    /\ PanicLocation(MisalignedInfo(start))
    /\ UNCHANGED panics

\* the same read in a build that does not check the pointer: where the
\* processor does not read through a misaligned pointer the read faults, and
\* the program stops in the fault handler
DetectFaults ==
    /\ pc = "run"
    /\ Detects < MaxDetects
    /\ ~Aligned(start)
    /\ ~checked
    /\ pc' = "fault"
    /\ UNCHANGED <<cfgVars, ram, blinker, panicVars, progVars, encoded, elog, plog,
                   hookCalls, regLog, oob, flipped, panics, reads>>

\* from_raw_parts(ram + at, n): the n bytes from at on, inside the region and
\* after it; u for those past the memory that is kept
ReadBytes(mem, at, n, u) ==
    [k \in 1..n |-> IF at + k - 1 < len + TailLen THEN At(mem, at + k - 1) ELSE u]

\* the bytes a read of n bytes from at on may return
Reads(mem, at, n) ==
    IF at + n <= len + TailLen THEN {ReadBytes(mem, at, n, 0)}
    ELSE {ReadBytes(mem, at, n, u) : u \in OutsideBytes}

\* PanicInfoMeta::filename on the held record
Filename ==
    /\ pc = "run"
    /\ held # None
    /\ \E text \in Reads(ram, HeaderSize, held[1].filename_len) :
          /\ lastFn' = Some(text)
          /\ stale' = stale \ {"filename"}
    /\ UNCHANGED <<cfgVars, ram, blinker, pc, panicVars, ret, held, lastMsg, encoded,
                   elog, plog, hookCalls, regLog, oob, flipped, panics, reads>>

\* PanicInfoMeta::message on the held record
Message ==
    /\ pc = "run"
    /\ held # None
    /\ reads' = Reread
    /\ \E text \in Reads(ram, HeaderSize + held[1].filename_len, held[1].message_len) :
          /\ lastMsg' = Some(text)
          /\ stale' = stale \ {"message"}
    /\ UNCHANGED <<cfgVars, ram, blinker, pc, panicVars, ret, held, lastFn, encoded,
                   elog, plog, hookCalls, regLog, oob, flipped, panics>>

\* the accessors that have returned a text, which a store makes stale
Returned ==
    (IF lastFn = None THEN {} ELSE {"filename"})
    \cup (IF lastMsg = None THEN {} ELSE {"message"})

\* the program writes v to ram_log_slice()[i], the region it is handed as a
\* mutable slice
SliceStore(i, v) ==
    /\ pc = "run"
    /\ i < len
    /\ At(ram, i) # v
    /\ ram' = CopyIn(ram, i, <<v>>, 1)
    /\ stale' = Returned
    /\ reads' = Noted("store")
    /\ UNCHANGED <<cfgVars, blinker, pc, panicVars, ret, held, lastFn, lastMsg,
                   encoded, elog, plog, hookCalls, regLog, oob, flipped, panics>>

\* the program writes v to _panic_info_ram_end, the byte right after the region
EndStore(v) ==
    /\ pc = "run"
    /\ At(ram, len) # v
    /\ ram' = CopyIn(ram, len, <<v>>, 1)
    /\ stale' = Returned
    /\ reads' = Noted("store")
    /\ UNCHANGED <<cfgVars, blinker, pc, panicVars, ret, held, lastFn, lastMsg,
                   encoded, elog, plog, hookCalls, regLog, oob, flipped, panics>>

\* an outside disturbance flips bit b of region byte i after an encode, before
\* the program has looked at the region
FlipBit(i, b) ==
    /\ pc = "run"
    /\ encoded
    /\ elog = <<>>
    /\ ~flipped
    /\ flipped' = TRUE
    /\ ram' = CopyIn(ram, i, <<IF (At(ram, i) \div (2 ^ b)) % 2 = 1
                               THEN At(ram, i) - 2 ^ b ELSE At(ram, i) + 2 ^ b>>, 1)
    /\ elog' = Append(elog, Event("flip", i, b))
    /\ UNCHANGED <<cfgVars, blinker, pc, panicVars, progVars, encoded, plog,
                   hookCalls, regLog, oob, panics, reads>>

Register == \E b \in Callbacks : SetPanicLedBlinker(b)
Panic == \E i \in Infos : ProgramPanics(i)
Flip == \E i \in FlipPositions(len), b \in FlipBits : FlipBit(i, b)

Next ==
    \/ Register
    \/ Panic
    \/ PanicCursor
    \/ PanicWriteStr
    \/ PanicMessageLen
    \/ PanicXor
    \/ PanicHeader
    \/ PanicHook
    \/ HookReturn
    \/ SysReset
    \/ DetectAndReset
    \/ DetectPanics
    \/ DetectFaults
    \/ Filename
    \/ Message

Spec == Init /\ [][Next]_vars

\* the checksum loop of panic(), lines 137-139, runs over a finite range and
\* so comes to its end: the position moves on to the header copy
PanicXorDone == pc = "xor" /\ pc' = "header"

\* the other steps of a running panic(): straight-line code, one write_str
\* per piece of a finite text, a callback that returns, the reset
PanicStep ==
    \/ PanicCursor
    \/ PanicWriteStr
    \/ PanicMessageLen
    \/ PanicHeader
    \/ PanicHook
    \/ HookReturn
    \/ SysReset

\* the program with a panic() that runs on and callbacks that return
SpecLive == Init /\ [][Next]_vars /\ WF_vars(PanicStep) /\ WF_pc(PanicXorDone)

\* the same program with no callback registered and an outside disturbance
NextFlip ==
    \/ Panic
    \/ PanicCursor
    \/ PanicWriteStr
    \/ PanicMessageLen
    \/ PanicXor
    \/ PanicHeader
    \/ PanicHook
    \/ SysReset
    \/ DetectAndReset
    \/ DetectPanics
    \/ DetectFaults
    \/ Flip

SpecFlip == Init /\ [][NextFlip]_vars

\* the same program, on aligned regions, with the stores it makes to the
\* region through ram_log_slice() and to the byte after it
InitStore == InitWith(StoreLens) /\ Aligned(start)
StoreRegion == \E i \in StorePositions, v \in StoreBytes : SliceStore(i, v)
StoreEnd == \E v \in StoreBytes : EndStore(v)

NextStore ==
    \/ Register
    \/ Panic
    \/ PanicCursor
    \/ PanicWriteStr
    \/ PanicMessageLen
    \/ PanicXor
    \/ PanicHeader
    \/ PanicHook
    \/ HookReturn
    \/ SysReset
    \/ DetectAndReset
    \/ Filename
    \/ Message
    \/ StoreRegion
    \/ StoreEnd

SpecStore == InitStore /\ [][NextStore]_vars

\* the same program with a region and texts of more than 2^16 bytes
InitWide == InitWith(WideLens) /\ At(ram, 0) = 0 /\ Aligned(start)
PanicWide == \E i \in WideInfos : ProgramPanics(i)

NextWide ==
    \/ PanicWide
    \/ PanicCursor
    \/ PanicWriteStr
    \/ PanicMessageLen
    \/ PanicXor
    \/ PanicHeader
    \/ PanicHook
    \/ SysReset
    \/ DetectAndReset
    \/ Filename
    \/ Message

SpecWide == InitWide /\ [][NextWide]_vars

\* ------------------------------------------------------------ claims
RECURSIVE Flatten(_)
\* the bytes of the pieces of a text, joined
Flatten(ps) == IF ps = <<>> THEN <<>> ELSE PieceBytes(Head(ps)) \o Flatten(Tail(ps))

\* bit b of v
BitAt(v, b) == (v \div (2 ^ b)) % 2

RECURSIVE ParityWord(_, _)
\* the byte whose bit b is the parity of bit b over mem[HeaderSize .. len-1],
\* for the bits from b up
ParityWord(mem, b) ==
    IF b > 7 THEN 0
    ELSE (Cardinality({i \in HeaderSize..(len - 1) : BitAt(At(mem, i), b) = 1}) % 2)
         + 2 * ParityWord(mem, b + 1)

\* the checksum the documentation describes: the XOR of every byte after the header
PayloadXor(mem) == ParityWord(mem, 0)

AllZero(mem) == \A i \in 0..(len - 1) : At(mem, i) = 0

\* the file name the last panic was given, its clamped length, the room left
\* for the message and the message that fits
PanicFile == IF info.loc = None THEN <<>> ELSE Bytes(info.loc[1].file)
ClampedLen == Min(Len(PanicFile), MaxFilenameLen)
Capacity == len - HeaderSize - ClampedLen
PanicText == Flatten(Display(info))
ExpectedMessage ==
    IF minimal THEN <<>> ELSE SubSeq(PanicText, 1, Min(Len(PanicText), Capacity))

RECURSIVE MessageBytes(_)
\* the bytes the writer copied, summed over the write_str calls of a log
MessageBytes(log) ==
    IF log = <<>> THEN 0
    ELSE (IF Head(log).ev = "message" THEN Head(log).hi - Head(log).lo ELSE 0)
         + MessageBytes(Tail(log))

\* this step is a detect_and_reset call that returns
IsDetect == Len(elog') = Len(elog) + 1 /\ elog'[Len(elog')].ev = "detect"

\* this step is a detect_and_reset call that panics at its misaligned read
IsDetectPanic ==
    pc = "run" /\ pc' # "run" /\ panics' = panics /\ info' = MisalignedInfo(start)

\* this step is a detect_and_reset call that faults at its misaligned read
IsDetectFault == pc = "run" /\ pc' = "fault"

\* positions of panic() after line 133 and after line 145
AfterMessage == {"xor", "header", "hook", "in_hook", "reset"}
AfterHeader == {"hook", "in_hook", "reset"}

\* C1: after a panic with a location and a text, in a region that can hold the
\* header and the file name, the first detect_and_reset after the reset
\* returns a record with the captured line and column and the clamped file
\* name length, and filename() and message() return the file name bytes and
\* the message bytes that were written.
RoundTrip ==
    (/\ encoded
     /\ pc = "run"
     /\ info.loc # None
     /\ Capacity >= 0
     /\ elog # <<>>
     /\ elog[1].ev = "detect")
    => /\ elog[1].lo = 1
       /\ held # None
       /\ held[1].line = info.loc[1].line
       /\ held[1].column = info.loc[1].column
       /\ held[1].filename_len = ClampedLen
       /\ (lastFn # None => lastFn[1] = SubSeq(PanicFile, 1, ClampedLen))
       /\ (lastMsg # None => lastMsg[1] = ExpectedMessage)

\* C2: once a detect_and_reset call has returned a record, every later call on
\* the same region, with no panic in between, returns None.
ConsumeOnce ==
    (encoded /\ ~oob /\ pc = "run")
    => \A i, j \in DOMAIN elog :
          (i < j /\ elog[i].ev = "detect" /\ elog[i].lo = 1 /\ elog[j].ev = "detect")
          => elog[j].lo = 0

\* C3 as stated: after an encode, a flip of any single bit anywhere in the
\* region, header included, makes the next detect_and_reset return None.
FlipAnyBit ==
    (encoded /\ Len(elog) >= 2 /\ elog[1].ev = "flip" /\ elog[2].ev = "detect")
    => elog[2].lo = 0

\* C3 as amended: after an encode, a flip of any single bit of the checksum
\* byte of the header or of any byte after the header makes the next
\* detect_and_reset return None.
FlipCheckedBit ==
    (/\ encoded
     /\ Len(elog) >= 2
     /\ elog[1].ev = "flip"
     /\ (elog[1].lo >= HeaderSize \/ elog[1].lo = OffXor)
     /\ elog[2].ev = "detect")
    => elog[2].lo = 0

FlipCheckedBitWitness ==
    /\ encoded
    /\ ~oob
    /\ Len(elog) >= 2
    /\ elog[1].ev = "flip"
    /\ elog[1].lo >= HeaderSize
    /\ elog[2].ev = "detect"
    /\ elog[2].lo = 0
    /\ ret = None

\* C4: every detect_and_reset call returns: a record exactly when the checksum
\* byte of the header equals the XOR of the bytes after the header as they are
\* at the call, a record that carries that checksum, and None in every other
\* case.
DetectIffChecksum ==
    [][/\ ~IsDetectPanic
       /\ ~IsDetectFault
       /\ IsDetect =>
             /\ (ret' # None) <=> (At(ram, OffXor) = PayloadXor(ram))
             /\ ret' # None => ret'[1].xor = PayloadXor(ram)]_vars

\* C5: the header panic() writes satisfies
\* header size + filename_len + message_len <= region length.
SizeInvariant ==
    (encoded /\ pc \in AfterHeader)
    => HeaderSize + ReadMeta(ram).filename_len + ReadMeta(ram).message_len <= len

\* C6: the file name is stored as its first min(length, 255) bytes, right
\* after the header, and the copy writes no byte at or past the end of the region.
FilenameClamp ==
    (plog # <<>> /\ plog[1].ev = "filename")
    => /\ meta.filename_len = ClampedLen
       /\ plog[1].lo = HeaderSize
       /\ plog[1].hi = HeaderSize + ClampedLen
       /\ plog[1].hi <= len
       /\ \A k \in 1..ClampedLen : At(ram, HeaderSize + k - 1) = PanicFile[k]

\* C7: with capacity = region length - header size - filename_len, a text
\* longer than capacity gives message_len = capacity, and message_len is
\* always the number of bytes the writer wrote and never more than capacity.
Truncation ==
    (~minimal /\ pc \in AfterMessage /\ Capacity >= 0)
    => /\ Len(PanicText) > Capacity => meta.message_len = Capacity
       /\ meta.message_len = MessageBytes(plog)
       /\ meta.message_len <= Capacity

\* C8: on a region whose bytes are all zero, detect_and_reset returns a record
\* whose fields are all zero, and filename() and message() of that record are empty.
AllZeroRegion ==
    [][/\ AllZero(ram) => (~IsDetectPanic /\ ~IsDetectFault)
       /\ (IsDetect /\ AllZero(ram)) => ret' = Some(DefaultMeta)
       /\ (held = Some(DefaultMeta) /\ lastFn' # lastFn /\ lastFn' # None)
          => lastFn' = Some(<<>>)
       /\ (held = Some(DefaultMeta) /\ lastMsg' # lastMsg /\ lastMsg' # None)
          => lastMsg' = Some(<<>>)]_vars

\* C9: panic() invokes the callback of the most recent set_panic_led_blinker
\* call, once, and none when there was no such call.
HookLastWins ==
    /\ pc \in {"cursor", "write", "xor", "header", "hook"} => hookCalls = <<>>
    /\ pc \in {"in_hook", "reset"}
       => hookCalls = IF regLog = <<>> THEN <<>> ELSE <<regLog[Len(regLog)]>>

HookLastWinsWitness ==
    /\ pc = "reset"
    /\ Len(regLog) = 2
    /\ regLog[1] # regLog[2]
    /\ hookCalls = <<regLog[2]>>

\* C10: a filename() or message() call on a record detect_and_reset returned
\* gives the text the call before it gave, whatever detect_and_reset and
\* set_panic_led_blinker calls happen in between (the text is a view of
\* memory: a call that follows a store of the program gives what was stored).
ReadStability ==
    [][/\ (lastFn # None /\ lastFn' # None /\ "filename" \notin stale)
          => lastFn' = lastFn
       /\ (lastMsg # None /\ lastMsg' # None /\ "message" \notin stale)
          => lastMsg' = lastMsg]_vars

ReadStabilityWitness ==
    /\ stale = {}
    /\ ~oob
    /\ encoded
    /\ held # None
    /\ held[1].message_len > 0
    /\ reads.n = 2
    /\ reads.mid = BetweenKinds
    /\ lastFn = None
    /\ lastMsg # None
    /\ Len(lastMsg[1]) = held[1].message_len
    /\ lastMsg[1][1] = 112

\* the place of an event of panic() in the order the documentation gives
Rank(e) ==
    CASE e.ev = "filename" -> 1
      [] e.ev = "message"  -> 2
      [] e.ev = "xor"      -> 3
      [] e.ev = "header"   -> 4
      [] e.ev = "hook"     -> 5
      [] e.ev = "hookret"  -> 6

\* how many events of kind k a log holds
Count(log, k) == Len(SelectSeq(log, LAMBDA e : e.ev = k))

\* the events of the running panic() are in the documented order, and the
\* region and the position agree with them
OrderedCapture ==
    /\ \A i, j \in DOMAIN plog : i < j => Rank(plog[i]) <= Rank(plog[j])
    /\ \A k \in {"filename", "xor", "header", "hook", "hookret"} : Count(plog, k) <= 1
    /\ pc \in {"header"} \cup AfterHeader
       => /\ Count(plog, "xor") = 1
          /\ meta.xor = PayloadXor(ram)
    /\ pc \in AfterHeader
       => /\ Count(plog, "header") = 1
          /\ ReadMeta(ram) = meta
          /\ At(ram, OffXor) = PayloadXor(ram)
    /\ pc \in {"cursor", "write", "xor", "header"} => Count(plog, "header") = 0
    /\ pc = "in_hook" => Count(plog, "hook") = 1 /\ Count(plog, "hookret") = 0
    /\ pc = "reset" => Count(plog, "hookret") = Count(plog, "hook")
    /\ pc = "reset" => Count(plog, "hook") = (IF blinker = None THEN 0 ELSE 1)

\* C11: in every run of panic() the file name and message bytes are written
\* first, the checksum is computed over the region as those writes left it,
\* the header is written after the checksum is computed, the callback is
\* called only with the header in the region, the reset comes only after the
\* callback has returned, and no region byte changes after the header write.
CaptureOrdering ==
    /\ []OrderedCapture
    /\ [][(pc \in AfterHeader) => (ram' = ram)]_vars

CaptureOrderingWitness ==
    /\ pc = "reset"
    /\ ~oob
    /\ Len(plog) = 13
    /\ plog[1].ev = "filename"
    /\ \A k \in 2..9 : plog[k].ev = "message" /\ plog[k].hi > plog[k].lo
    /\ plog[10].ev = "xor"
    /\ plog[11].ev = "header"
    /\ plog[12].ev = "hook"
    /\ plog[13].ev = "hookret"

\* C12: with no callback registered, or one that returns, every run of
\* panic() comes to the reset; panic() never returns to the code that
\* panicked, and the reset is reached only with no callback registered or
\* with the callback returned.
EndsInReset ==
    /\ (pc \notin {"run", "fault"}) ~> (pc = "run")
    /\ [][/\ (pc # "run" /\ pc' = "run") => pc = "reset"
          /\ (pc # "reset" /\ pc' = "reset")
             => \/ pc = "hook" /\ blinker = None
                \/ pc = "in_hook"]_vars

\* this step is a write_str call of panic()
IsAppend == Len(plog') = Len(plog) + 1 /\ plog'[Len(plog')].ev = "message"

\* the room a cursor has left and the number of bytes an append of n bytes
\* is to copy: min(n, capacity - offset) on usize values (a negative room
\* stands for one of 2^31 bytes or more)
Room(c) == c.cap - c.idx
ToCopy(c, n) == IF Room(c) >= 0 /\ Room(c) < n THEN Room(c) ELSE n

\* C13: every write_str copies exactly min(len(text), capacity - offset)
\* bytes of the text to the buffer from offset on and advances offset by that
\* number; offset <= capacity holds after any sequence of calls; no byte
\* before the starting offset (and none after the copied bytes) changes; and
\* with offset = capacity a call copies nothing.
BoundedWriter ==
    /\ [](pc = "write" => (cursor.idx >= 0 /\ (cursor.cap >= 0 => cursor.idx <= cursor.cap)))
    /\ [][IsAppend =>
            LET text == PieceBytes(Head(cursor.todo))
                at == cursor.start + cursor.idx
                n == ToCopy(cursor, Len(text))
            IN  /\ cursor'.idx = cursor.idx + n
                /\ cursor'.cap = cursor.cap
                /\ cursor'.start = cursor.start
                /\ plog'[Len(plog')].lo = at
                /\ plog'[Len(plog')].hi = at + n
                /\ \A i \in 0..(len - 1) :
                      At(ram', i) = IF i >= at /\ i < at + n THEN text[i - at + 1]
                                   ELSE At(ram, i)
                /\ cursor.idx = cursor.cap => (ram' = ram /\ cursor'.idx = cursor.idx)]_vars

BoundedWriterWitness ==
    /\ pc = "write"
    /\ ~oob
    /\ cursor.todo = <<>>
    /\ cursor.cap > 0
    /\ cursor.idx = cursor.cap
    /\ Len(plog) >= 3
    /\ \E k \in DOMAIN plog :
          /\ plog[k].ev = "message"
          /\ plog[k].lo = cursor.start
          /\ plog[k].hi = cursor.start + cursor.cap
          /\ plog[k].hi - plog[k].lo < Len(Bytes("panicked at "))
    /\ plog[Len(plog)].ev = "message"
    /\ plog[Len(plog)].hi = plog[Len(plog)].lo

\* this step is the start of a panic() with no location
IsPanicNoLocation ==
    pc = "run" /\ pc' # "run" /\ panics' = panics + 1 /\ info'.loc = None

\* C14: a panic with no location writes a header with filename_len = 0,
\* line = 0 and column = 0, writes no file name byte, and puts the message
\* bytes right after the header.
NoLocation ==
    /\ []((info.loc = None /\ pc \in {"cursor", "write"} \cup AfterMessage)
          => /\ meta.filename_len = 0 /\ meta.line = 0 /\ meta.column = 0
             /\ Count(plog, "filename") = 0
             /\ \A k \in DOMAIN plog : plog[k].ev = "message" => plog[k].lo >= HeaderSize
             /\ (plog # <<>> /\ plog[1].ev = "message") => plog[1].lo = HeaderSize
             /\ pc \in {"write"} \cup AfterMessage => cursor.start = HeaderSize \/ minimal
             /\ pc \in AfterMessage
                => \A k \in 1..Len(ExpectedMessage) :
                      At(ram, HeaderSize + k - 1) = ExpectedMessage[k]
             /\ pc \in AfterHeader
                => /\ At(ram, OffFilenameLen) = 0
                   /\ LeValue(ram, OffLine, 4) = 0
                   /\ LeValue(ram, OffColumn, 4) = 0)
    /\ [][IsPanicNoLocation => (ram' = ram /\ ~oob')]_vars

NoLocationWitness ==
    /\ pc = "reset"
    /\ info.loc = None
    /\ info.pieces = <<Str("boom")>>
    /\ ~minimal
    /\ len = HeaderSize + MaxFilenameLen + 8
    /\ ReadMeta(ram).filename_len = 0
    /\ ReadMeta(ram).message_len = 18
    /\ At(ram, HeaderSize) = 112
    /\ At(ram, HeaderSize + 17) = 109

\* the file name bytes of the last panic lie in the region, right after the header
FileRecorded ==
    /\ HeaderSize + ClampedLen <= len
    /\ \A k \in 1..ClampedLen : At(ram, HeaderSize + k - 1) = PanicFile[k]

\* what a minimal panic() has recorded once the header is written; the same
\* record comes back from the first detect_and_reset after the reset
MinimalRecord ==
    /\ (minimal /\ pc \in AfterHeader)
       => /\ LeValue(ram, OffMessageLen, 2) = 0
          /\ At(ram, OffFilenameLen) = ClampedLen
          /\ info.loc # None => /\ U32Value(ram, OffLine) = info.loc[1].line
                                /\ U32Value(ram, OffColumn) = info.loc[1].column
          /\ At(ram, OffXor) = PayloadXor(ram)
          /\ FileRecorded
    /\ (minimal /\ encoded /\ pc = "run" /\ elog # <<>> /\ elog[1].ev = "detect")
       => /\ elog[1].lo = 1
          /\ held # None
          /\ held[1].message_len = 0
          /\ held[1].filename_len = ClampedLen
          /\ info.loc # None => /\ held[1].line = info.loc[1].line
                                /\ held[1].column = info.loc[1].column
          /\ FileRecorded

\* the region bytes a step of a minimal panic() may change: the file name
\* bytes when it starts, the header bytes after that
MinimalFrame ==
    /\ (minimal /\ pc = "run" /\ pc' # "run")
       => \A i \in 0..(len - 1) :
             (i < HeaderSize \/ i >= HeaderSize + meta'.filename_len)
             => At(ram', i) = At(ram, i)
    /\ (minimal /\ pc \notin {"run", "lockup"})
       => /\ pc' \notin {"cursor", "write"}
          /\ Count(plog', "message") = 0
          /\ \A i \in HeaderSize..(len - 1) : At(ram', i) = At(ram, i)

\* C15: in the minimal build panic() writes message_len = 0 and changes no
\* region byte after the file name bytes, and still records file name, line,
\* column and checksum, so that detect_and_reset returns the record.
MinimalMode == []MinimalRecord /\ [][MinimalFrame]_vars

\* C16: a detect_and_reset call that returns None leaves every region byte
\* as it was; a call that returns a record sets the header bytes to zero and
\* leaves every byte from the end of the header to the end of the region as
\* it was.
DecodeFrame ==
    [][IsDetect =>
          /\ ret' = None => \A i \in 0..(len - 1) : At(ram', i) = At(ram, i)
          /\ ret' # None
             => /\ \A i \in 0..(HeaderSize - 1) : At(ram', i) = 0
                /\ \A i \in HeaderSize..(len - 1) : At(ram', i) = At(ram, i)]_vars

DecodeFrameWitness ==
    /\ encoded
    /\ ~oob
    /\ Len(elog) = 1
    /\ elog[1].ev = "detect"
    /\ ret # None
    /\ ret[1].filename_len = 4
    /\ ret[1].line = 12
    /\ ret[1].message_len = Len(PanicText)
    /\ \A i \in 0..(HeaderSize - 1) : At(ram, i) = 0
    /\ \A k \in 1..4 : At(ram, HeaderSize + k - 1) = PanicFile[k]
    /\ At(ram, len - 1) = 1

\* C17: whatever the region holds, a record detect_and_reset returns has
\* header size + filename_len + message_len <= region length, so that
\* filename() and message() read only region bytes.
AccessorsInRegion ==
    /\ ret # None => HeaderSize + ret[1].filename_len + ret[1].message_len <= len
    /\ held # None => HeaderSize + held[1].filename_len + held[1].message_len <= len

====
